---- MODULE Spec2Model ----
(***************************************************************************)
(* pyincus model layer: the model builder (BaseIncusMeta / incus_model of  *)
(* models/base.py) with its generated constructor, and the field           *)
(* descriptor / filter query pair (ModelField / FilterQuery of             *)
(* models/fields.py).                                                      *)
(*                                                                         *)
(* Python values are records tagged by "kind".  An ordered mapping (a      *)
(* Python dict, which keeps insertion order) is a sequence of <<key,       *)
(* value>> pairs with distinct keys.                                       *)
(***************************************************************************)
EXTENDS Integers, Sequences, FiniteSets, TLC

VARIABLES
    clsName,        \* __name__ of the class handed to incus_model
    body,           \* the class body: a sequence of statements
    newClassDict,   \* the dict given to type(name, bases, dict) by __new__
    model_fields,   \* new_class._model_fields
    pc,             \* position of the builder / of the running constructor
    callKwargs,     \* the keyword arguments of the running constructor call
    kwargs,         \* _init's local kwargs after the merge of line 57
    unsets,         \* _init's local list of missing fields
    inst,           \* the instance's __dict__
    events,         \* what the running call did to the instance, in order
    hookCalls,      \* the keyword mappings __post_init__ was invoked with
    raised,         \* the exception that left the running call, or NoError
    last            \* the last filter-expression operation and its outcome

ctorVars == <<clsName, body, newClassDict, model_fields, pc, callKwargs,
              kwargs, unsets, inst, events, hookCalls, raised>>
vars == <<clsName, body, newClassDict, model_fields, pc, callKwargs,
          kwargs, unsets, inst, events, hookCalls, raised, last>>

----------------------------------------------------------------------------
(* Bounds *)

MaxBody == 3        \* statements of a class body
MaxKwargs == 3      \* keyword arguments of one constructor call
MaxDepth == 3       \* nesting depth of a filter expression

----------------------------------------------------------------------------
(* Python values *)

Unset == [kind |-> "Unset"]
PyNone == [kind |-> "None"]
PyInt(n) == [kind |-> "int", n |-> n]
PyStr(chars) == [kind |-> "str", chars |-> chars]
PyFunction(name) == [kind |-> "function", name |-> name]
PyProperty(name) == [kind |-> "property", name |-> name]

\* callable(value): functions and classes are callable, data values are not.
Callable(value) == value.kind \in {"function", "type"}

IsProperty(value) == value.kind = "property"

\* attr.startswith('_')
StartsWithUnderscore(attr) == attr \in {"_p", "_q", "__doc__"}

----------------------------------------------------------------------------
(* Ordered mappings (dict) *)

Keys(d) == {d[i][1] : i \in 1..Len(d)}

KeySeq(d) == [i \in 1..Len(d) |-> d[i][1]]

HasKey(d, k) == \E i \in 1..Len(d) : d[i][1] = k

Get(d, k) == d[CHOOSE i \in 1..Len(d) : d[i][1] = k][2]

\* d[k] = v: an existing key keeps its position, a new key goes last.
DictSet(d, k, v) ==
    IF HasKey(d, k)
    THEN [i \in 1..Len(d) |-> IF d[i][1] = k THEN <<k, v>> ELSE d[i]]
    ELSE Append(d, <<k, v>>)

\* d.setdefault(k, v)
SetDefault(d, k, v) == IF HasKey(d, k) THEN d ELSE Append(d, <<k, v>>)

\* d1 | d2: d1 updated item by item with d2.
RECURSIVE DictOr(_, _)
DictOr(d1, d2) ==
    IF d2 = <<>> THEN d1
    ELSE DictOr(DictSet(d1, Head(d2)[1], Head(d2)[2]), Tail(d2))

\* dict(items): later items win over earlier ones with the same key.
DictOf(items) == DictOr(<<>>, items)

Range(seq) == {seq[i] : i \in 1..Len(seq)}

AllDistinct(s) == \A i, j \in 1..Len(s) : i # j => s[i] # s[j]

----------------------------------------------------------------------------
(* Field descriptors *)

\* ModelField.__init__
ModelField(cls, field_name) ==
    [kind |-> "ModelField", cls |-> cls, field_name |-> field_name]

----------------------------------------------------------------------------
(* The class handed to incus_model *)

\* A statement of the class body: "attr: T" (annotated, no value),
\* "attr: T = value" (annotated, value) or "attr = value" / a def / a
\* property (not annotated, value).
NoValue == [kind |-> "absent"]

PublicNames == {"a", "b", "c"}
PrivateNames == {"_p"}
BodyNames == PublicNames \cup PrivateNames
UnknownNames == {"z"}

DefaultValue == PyInt(1)
SuppliedValue == PyInt(2)

BodyValues == {DefaultValue, PyFunction("fn"), PyProperty("prop")}

Statements(attr) ==
    IF attr \in PublicNames
    THEN {[attr |-> attr, annotated |-> an, value |-> v] :
             an \in BOOLEAN, v \in BodyValues \cup {NoValue}}
         \ {[attr |-> attr, annotated |-> FALSE, value |-> NoValue]}
    ELSE {[attr |-> attr, annotated |-> TRUE, value |-> NoValue],
          [attr |-> attr, annotated |-> FALSE, value |-> DefaultValue]}

\* Every body of at most MaxBody statements: each name is declared at most
\* once, in any order.
Bodies ==
    UNION {{b \in [1..n -> UNION {Statements(x) : x \in BodyNames}] :
               AllDistinct([i \in 1..n |-> b[i].attr])} :
           n \in 0..MaxBody}

\* vars(cls).items(): the names the body binds, in binding order.
Attrs(b) ==
    LET bound == SelectSeq(b, LAMBDA st : st.value # NoValue)
    IN  [i \in 1..Len(bound) |-> <<bound[i].attr, bound[i].value>>]

\* attrs.get('__annotations__', {}): the annotated names, in order.
Annotations(b) ==
    LET ann == SelectSeq(b, LAMBDA st : st.annotated)
    IN  [i \in 1..Len(ann) |-> ann[i].attr]

----------------------------------------------------------------------------
(* BaseIncusMeta.__new__ *)

\* The metaclass: the cls that __new__ receives.
MetaclassName == "BaseIncusMeta"

\* The if / elif / else of the first loop.
Classify(attr, value) ==
    IF Callable(value) \/ IsProperty(value) THEN "method"
    ELSE IF StartsWithUnderscore(attr) THEN "secret"
    ELSE "field"

Methods(items) ==
    SelectSeq(items, LAMBDA it : Classify(it[1], it[2]) = "method")

SecretAttributes(items) ==
    SelectSeq(items, LAMBDA it : Classify(it[1], it[2]) = "secret")

\* new_class_model_fields after the first loop.
PublicValues(items) ==
    DictOf(SelectSeq(items, LAMBDA it : Classify(it[1], it[2]) = "field"))

PublicAnnotations(b) ==
    SelectSeq(Annotations(b), LAMBDA attr : ~StartsWithUnderscore(attr))

\* The descriptor the second loop makes for an annotated public name.
FieldDescriptor(name, attr) == ModelField(MetaclassName, attr)

\* model_fields after the second loop.
ModelFieldItems(name, b) ==
    LET pub == PublicAnnotations(b)
    IN  [i \in 1..Len(pub) |-> <<pub[i], FieldDescriptor(name, pub[i])>>]

\* new_class_model_fields after the second loop.
RECURSIVE SetDefaults(_, _)
SetDefaults(d, names) ==
    IF names = <<>> THEN d
    ELSE SetDefaults(SetDefault(d, Head(names), Unset), Tail(names))

NewClassModelFields(b) == SetDefaults(PublicValues(Attrs(b)), PublicAnnotations(b))

\* dict((*secret_attributes, *methods, *model_fields))
NewClassDict(name, b) ==
    DictOf(SecretAttributes(Attrs(b)) \o Methods(Attrs(b)) \o ModelFieldItems(name, b))

\* ModelField.__repr__: f'{self.cls.__name__}.{self.field_name}'
ModelFieldRepr(field) == field.cls \o "." \o field.field_name

\* What the class itself binds to a name: new_class is built on the bases
\* cls.mro(), so a name missing from its own dict is looked up in the
\* decorated class.
NoAttribute == [kind |-> "AttributeError"]

ClassAttr(classDict, b, name) ==
    IF HasKey(classDict, name) THEN Get(classDict, name)
    ELSE IF HasKey(Attrs(b), name) THEN Get(Attrs(b), name)
    ELSE NoAttribute

\* getattr(instance, name): setattr of line 65 writes the instance's
\* __dict__, which shadows the class for everything _init assigns.
GetAttr(dict, classDict, b, name) ==
    IF HasKey(dict, name) THEN Get(dict, name)
    ELSE ClassAttr(classDict, b, name)

----------------------------------------------------------------------------
(* BaseIncusMeta._init, the generated constructor *)

NoError == [kind |-> "NoError"]

\* raise PyIncusException(f'The required fields {unsets} are missing.')
MissingFieldsError(missing) == [kind |-> "PyIncusException", fields |-> missing]

ClassNames == {"M", "N"}

\* The keyword arguments of a call: up to MaxKwargs distinct names, written
\* in the order of KwargOrder, each with the supplied value.
KwargOrder == <<"z", "a", "b", "c", "_p">>

KwargSeqs ==
    {[i \in 1..Len(ks) |-> <<ks[i], SuppliedValue>>] :
        ks \in {SelectSeq(KwargOrder, LAMBDA k : k \in chosen) :
                   chosen \in {c \in SUBSET (BodyNames \cup UnknownNames) :
                                  Cardinality(c) <= MaxKwargs}}}

\* Mutant of MergeKwargs: the operands of the merge swapped, so that the
\* defaults win over the supplied values.
MergeKwargsDefaultsWin(fields, kw) == DictOr(kw, fields)

\* kwargs = self._model_fields | kwargs
MergeKwargs(fields, kw) == DictOr(fields, kw)

\* Mutant of Skipped: the membership test dropped.
SkippedNever(fields, field) == FALSE

\* "if field not in self._model_fields: continue"
Skipped(fields, field) == ~HasKey(fields, field)

\* "if value is Unset: unsets.append(field)"
NextUnsets(fields, missing, field, value) ==
    IF Skipped(fields, field) THEN missing
    ELSE IF value = Unset THEN Append(missing, field)
    ELSE missing

\* Mutant of Assigns: "else" in place of "elif not unsets".
AssignsAfterMissing(fields, missing, field, value) ==
    /\ HasKey(fields, field)
    /\ value # Unset

\* "elif not unsets: setattr(self, field, value)"
Assigns(fields, missing, field, value) ==
    /\ ~Skipped(fields, field)
    /\ value # Unset
    /\ missing = <<>>

SetAttrEvent(field) == [ev |-> "setattr", field |-> field]
HookEvent == [ev |-> "__post_init__", field |-> ""]
RaiseEvent == [ev |-> "raise", field |-> ""]

\* "for field, value in kwargs.items()": the locals after the items from
\* position i on have been processed.
RECURSIVE InitLoop(_, _, _, _)
InitLoop(fields, merged, i, st) ==
    IF i > Len(merged) THEN st
    ELSE LET field == merged[i][1]
             value == merged[i][2]
             set == Assigns(fields, st.unsets, field, value)
         IN  InitLoop(fields, merged, i + 1,
                 [unsets |-> NextUnsets(fields, st.unsets, field, value),
                  inst   |-> IF set THEN DictSet(st.inst, field, value)
                             ELSE st.inst,
                  events |-> IF set THEN Append(st.events, SetAttrEvent(field))
                             ELSE st.events])

\* Mutant of MustRaise: the raise dropped.
MustRaiseNever(missing) == FALSE

\* "if unsets: raise ..."
MustRaise(missing) == missing # <<>>

\* The whole of _init on a fresh instance: what it leaves on the instance,
\* whether it raised, and what the hook was invoked with.
InitResult(fields, kw) ==
    LET merged == MergeKwargs(fields, kw)
        after  == InitLoop(fields, merged, 1,
                           [unsets |-> <<>>, inst |-> <<>>, events |-> <<>>])
    IN  IF MustRaise(after.unsets)
        THEN [kwargs |-> merged, unsets |-> after.unsets, inst |-> after.inst,
              events |-> Append(after.events, RaiseEvent),
              raised |-> MissingFieldsError(after.unsets),
              hookCalls |-> <<>>]
        ELSE [kwargs |-> merged, unsets |-> after.unsets, inst |-> after.inst,
              events |-> Append(after.events, HookEvent),
              raised |-> NoError,
              hookCalls |-> <<merged>>]

CtorInit ==
    /\ clsName \in ClassNames
    /\ body \in Bodies
    /\ newClassDict = <<>>
    /\ model_fields = <<>>
    /\ pc = "define"
    /\ callKwargs = <<>>
    /\ kwargs = <<>>
    /\ unsets = <<>>
    /\ inst = <<>>
    /\ events = <<>>
    /\ hookCalls = <<>>
    /\ raised = NoError

\* incus_model(cls): BaseIncusMeta(cls.__name__, tuple(cls.mro()), vars(cls))
DefineClass ==
    /\ pc = "define"
    /\ newClassDict' = NewClassDict(clsName, body)
    /\ model_fields' = NewClassModelFields(body)
    /\ pc' = "ready"
    /\ UNCHANGED <<clsName, body, callKwargs, kwargs, unsets, inst, events,
                   hookCalls, raised, last>>

\* M(**kw): _init runs on a fresh instance, to its return or its raise.
Construct ==
    /\ pc = "ready"
    /\ \E kw \in KwargSeqs :
          \E r \in {InitResult(model_fields, kw)} :
              /\ callKwargs' = kw
              /\ kwargs' = r.kwargs
              /\ unsets' = r.unsets
              /\ inst' = r.inst
              /\ events' = r.events
              /\ hookCalls' = r.hookCalls
              /\ raised' = r.raised
              /\ pc' = IF r.raised = NoError THEN "done" ELSE "raised"
    /\ UNCHANGED <<clsName, body, newClassDict, model_fields, last>>

NoOperation ==
    [call |-> "none", first |-> Unset, operation |-> "", second |-> Unset,
     outcome |-> Unset]

Init == CtorInit /\ last = NoOperation

Next == DefineClass \/ Construct

Spec == Init /\ [][Next]_vars

----------------------------------------------------------------------------
(* Python's str and repr of scalars *)

\* The string scalars, as sequences of characters: a plain word, a text with
\* a single quote, one with both quotes and one with a backslash.
Strings == {<<"w">>, <<"i", "t", "'", "s">>, <<"'", "\"">>, <<"\\">>}

RECURSIVE Join(_)
Join(chars) == IF chars = <<>> THEN "" ELSE Head(chars) \o Join(Tail(chars))

\* repr of a str: double quotes when the text holds a single quote and no
\* double quote, single quotes otherwise; the backslash and the chosen quote
\* are escaped.
QuoteFor(chars) ==
    IF "'" \in Range(chars) /\ "\"" \notin Range(chars) THEN "\"" ELSE "'"

Escaped(chars, quote) ==
    [i \in 1..Len(chars) |->
        IF chars[i] = "\\" \/ chars[i] = quote THEN "\\" \o chars[i] ELSE chars[i]]

StrRepr(chars) ==
    QuoteFor(chars) \o Join(Escaped(chars, QuoteFor(chars))) \o QuoteFor(chars)

----------------------------------------------------------------------------
(* FilterOperation and FilterQuery *)

Operations == {"NOT", "EQUALS", "AND", "OR", "NOT_EQUALS"}

\* FilterOperation.__str__: the member's value.
OperationStr(operation) ==
    CASE operation = "NOT" -> "not"
      [] operation = "EQUALS" -> "eq"
      [] operation = "AND" -> "and"
      [] operation = "OR" -> "or"
      [] operation = "NOT_EQUALS" -> "ne"

\* raise PyIncusException("Second value must always be set ...")
OperandError == [kind |-> "PyIncusException", message |-> "second value"]

\* What Python raises for an operator neither operand's type defines.
TypeError == [kind |-> "TypeError"]

FilterQuery(first_value, operation, second_value) ==
    [kind |-> "FilterQuery", first_value |-> first_value,
     operation |-> operation, second_value |-> second_value]

\* Mutant of FilterQueryInit: the check of the other FilterQuery
\* (models/general.py), which lets a negation carry a second operand.
FilterQueryInitLenient(first_value, operation, second_value) ==
    IF second_value = Unset /\ operation # "NOT" THEN OperandError
    ELSE FilterQuery(first_value, operation, second_value)

\* FilterQuery.__init__: the node, or the exception that leaves it.
FilterQueryInit(first_value, operation, second_value) ==
    IF (second_value = Unset) # (operation = "NOT") THEN OperandError
    ELSE FilterQuery(first_value, operation, second_value)

\* ModelField.__str__
ModelFieldStr(field) == field.field_name

\* repr of a value that is not a FilterQuery.
PyRepr(value) ==
    CASE value.kind = "str" -> StrRepr(value.chars)
      [] value.kind = "int" -> ToString(value.n)
      [] value.kind = "None" -> "None"
      [] value.kind = "ModelField" -> ModelFieldRepr(value)

\* Mutant of FilterQueryStr: the symbols of _repr_mapping, which __repr__
\* uses, in place of the wire tokens.
RECURSIVE FilterQueryStrSymbols(_)
FilterQueryStrSymbols(q) ==
    LET first == IF q.first_value.kind = "FilterQuery"
                 THEN FilterQueryStrSymbols(q.first_value)
                 ELSE ModelFieldStr(q.first_value)
        symbol == CASE q.operation = "EQUALS" -> "=="
                    [] q.operation = "NOT_EQUALS" -> "!="
                    [] OTHER -> OperationStr(q.operation)
    IN  IF q.second_value = Unset THEN "not " \o first
        ELSE first \o " " \o symbol \o " " \o
             (IF q.second_value.kind = "FilterQuery"
              THEN FilterQueryStrSymbols(q.second_value)
              ELSE PyRepr(q.second_value))

\* FilterQuery.__str__
RECURSIVE FilterQueryStr(_)
FilterQueryStr(q) ==
    LET first == IF q.first_value.kind = "FilterQuery"
                 THEN FilterQueryStr(q.first_value)
                 ELSE ModelFieldStr(q.first_value)
    IN  IF q.second_value = Unset THEN "not " \o first
        ELSE first \o " " \o OperationStr(q.operation) \o " " \o
             (IF q.second_value.kind = "FilterQuery"
              THEN FilterQueryStr(q.second_value)
              ELSE PyRepr(q.second_value))

\* Mutant of ModelFieldEq: the operation of __ne__.
ModelFieldEqAsNe(self, other) == FilterQueryInit(self, "NOT_EQUALS", other)

\* ModelField.__eq__
ModelFieldEq(self, other) == FilterQueryInit(self, "EQUALS", other)

\* ModelField.__ne__
ModelFieldNe(self, other) == FilterQueryInit(self, "NOT_EQUALS", other)

\* Mutant of FilterQueryAnd: the operands swapped.
FilterQueryAndSwapped(self, other) == FilterQueryInit(other, "AND", self)

\* FilterQuery.__and__
FilterQueryAnd(self, other) == FilterQueryInit(self, "AND", other)

\* FilterQuery.__or__
FilterQueryOr(self, other) == FilterQueryInit(self, "OR", other)

\* FilterQuery.__invert__
FilterQueryInvert(self) == FilterQueryInit(self, "NOT", Unset)

\* left & right: FilterQuery defines __and__ and nothing defines __rand__;
\* ModelField defines neither.
BinaryAnd(left, right) ==
    IF left.kind = "FilterQuery" THEN FilterQueryAnd(left, right) ELSE TypeError

\* left | right
BinaryOr(left, right) ==
    IF left.kind = "FilterQuery" THEN FilterQueryOr(left, right) ELSE TypeError

\* ~operand
UnaryInvert(operand) ==
    IF operand.kind = "FilterQuery" THEN FilterQueryInvert(operand) ELSE TypeError

\* A Python bool.
PyBool(truth) == [kind |-> "bool", truth |-> truth]

\* str(value)
Str(value) ==
    CASE value.kind = "FilterQuery" -> FilterQueryStr(value)
      [] value.kind = "ModelField" -> ModelFieldStr(value)
      [] value.kind = "str" -> Join(value.chars)
      [] OTHER -> PyRepr(value)

\* Mutant of FilterQueryEq: equality of the trees.
FilterQueryEqStructural(self, other) == self = other

\* FilterQuery.__eq__
FilterQueryEq(self, other) == FilterQueryStr(self) = Str(other)

\* hash of a str: equal strings have equal hashes, and no two strings are
\* taken to collide.
StrHash(string) == [kind |-> "hash", of |-> string]

\* ModelField.__hash__
ModelFieldHash(self) == StrHash(self.field_name)

RECURSIVE PyHash(_)

\* Mutant of FilterQueryHash: the hash of the operation.
FilterQueryHashOfOperation(self) == StrHash(self.operation)

\* FilterQuery.__hash__
FilterQueryHash(self) == PyHash(self.first_value)

\* hash(value) of a descriptor or an expression
PyHash(value) ==
    IF value.kind = "FilterQuery" THEN FilterQueryHash(value)
    ELSE ModelFieldHash(value)

RECURSIVE Depth(_)
Depth(value) ==
    IF value.kind # "FilterQuery" THEN 0
    ELSE LET d1 == Depth(value.first_value)
             d2 == Depth(value.second_value)
         IN  1 + (IF d1 >= d2 THEN d1 ELSE d2)

----------------------------------------------------------------------------
(* Building filter expressions *)

\* The descriptors, scalars and operands the operations are applied to.
Fields == {ModelField("M", "a"), ModelField("N", "b")}

Scalars == {PyStr(chars) : chars \in Strings} \cup {PyInt(5), PyNone}

\* The expression the previous operation built, if it built one.
Previous == IF last.outcome.kind = "FilterQuery" THEN {last.outcome} ELSE {}

\* An expression and a descriptor at hand besides the previous expression.
Leaf == FilterQuery(ModelField("N", "b"), "NOT_EQUALS", PyStr(<<"w">>))

Descriptor == ModelField("M", "a")

\* The operands of an expression grouped the other way: P op (Q op' R) for
\* (P op Q) op' R, and (~P) op Q for ~(P op Q), over expressions P, Q, R.
Regrouped(node) ==
    LET inner == node.first_value
        Binary(operation, left, right) ==
            IF operation = "AND" THEN BinaryAnd(left, right)
            ELSE BinaryOr(left, right)
    IN  IF /\ inner.kind = "FilterQuery"
           /\ inner.operation \in {"AND", "OR"}
           /\ inner.first_value.kind = "FilterQuery"
           /\ inner.second_value.kind = "FilterQuery"
        THEN IF node.operation = "NOT"
             THEN {Binary(inner.operation, UnaryInvert(inner.first_value),
                          inner.second_value)}
             ELSE IF /\ node.operation \in {"AND", "OR"}
                     /\ node.second_value.kind = "FilterQuery"
             THEN {Binary(inner.operation, inner.first_value,
                          Binary(node.operation, inner.second_value,
                                 node.second_value))}
             ELSE {}
        ELSE {}

\* The same expression over the descriptors of the other model type.
RECURSIVE OtherType(_)
OtherType(value) ==
    CASE value.kind = "ModelField" ->
            ModelField(IF value.cls = "M" THEN "N" ELSE "M", value.field_name)
      [] value.kind = "FilterQuery" ->
            FilterQuery(OtherType(value.first_value), value.operation,
                        OtherType(value.second_value))
      [] OTHER -> value

Operation(call, first, operation, second, outcome) ==
    [call |-> call, first |-> first, operation |-> operation,
     second |-> second, outcome |-> outcome]

QueryInit ==
    /\ clsName = "M"
    /\ body = <<>>
    /\ newClassDict = <<>>
    /\ model_fields = <<>>
    /\ pc = "query"
    /\ callKwargs = <<>>
    /\ kwargs = <<>>
    /\ unsets = <<>>
    /\ inst = <<>>
    /\ events = <<>>
    /\ hookCalls = <<>>
    /\ raised = NoError
    /\ last = NoOperation

\* field == value
CompareEq ==
    /\ \E field \in Fields,
          value \in Scalars \cup Previous \cup {Descriptor, Unset} :
          /\ Depth(value) < MaxDepth
          /\ last' = Operation("eq", field, "EQUALS", value,
                               ModelFieldEq(field, value))
    /\ UNCHANGED ctorVars

\* field != value
CompareNe ==
    /\ \E field \in Fields,
          value \in Scalars \cup Previous \cup {Descriptor, Unset} :
          /\ Depth(value) < MaxDepth
          /\ last' = Operation("ne", field, "NOT_EQUALS", value,
                               ModelFieldNe(field, value))
    /\ UNCHANGED ctorVars

\* The operand pairs of & and |: the previous expression on either side of
\* the descriptor, the leaf or itself.
OperandPairs ==
    (Previous \X (Previous \cup {Descriptor, Leaf}))
    \cup ({Descriptor, Leaf} \X (Previous \cup {Leaf}))

\* left & right
And ==
    /\ \E pair \in OperandPairs :
          /\ Depth(pair[1]) < MaxDepth /\ Depth(pair[2]) < MaxDepth
          /\ last' = Operation("and", pair[1], "AND", pair[2],
                               BinaryAnd(pair[1], pair[2]))
    /\ UNCHANGED ctorVars

\* left | right
Or ==
    /\ \E pair \in OperandPairs :
          /\ Depth(pair[1]) < MaxDepth /\ Depth(pair[2]) < MaxDepth
          /\ last' = Operation("or", pair[1], "OR", pair[2],
                               BinaryOr(pair[1], pair[2]))
    /\ UNCHANGED ctorVars

\* ~operand
Invert ==
    /\ \E operand \in Previous \cup {Descriptor, Leaf} :
          /\ Depth(operand) < MaxDepth
          /\ last' = Operation("invert", operand, "NOT", Unset,
                               UnaryInvert(operand))
    /\ UNCHANGED ctorVars

\* FilterQuery(first_value, operation, second_value), called directly.
New ==
    /\ \E first \in Fields, operation \in Operations,
          second \in {Unset, PyInt(5), Leaf} :
          /\ Depth(first) < MaxDepth /\ Depth(second) < MaxDepth
          /\ last' = Operation("new", first, operation, second,
                               FilterQueryInit(first, operation, second))
    /\ UNCHANGED ctorVars

\* self == other, self an expression
QueryEq ==
    /\ \E self \in Previous :
          \E other \in Regrouped(self) \cup {OtherType(self), Leaf} :
             last' = Operation("query_eq", self, "", other,
                               PyBool(FilterQueryEq(self, other)))
    /\ UNCHANGED ctorVars

\* hash(operand)
Hash ==
    /\ \E operand \in Previous \cup {Descriptor} :
          last' = Operation("hash", operand, "", Unset, PyHash(operand))
    /\ UNCHANGED ctorVars

QueryNext ==
    CompareEq \/ CompareNe \/ And \/ Or \/ Invert \/ New \/ QueryEq \/ Hash

SpecQuery == QueryInit /\ [][QueryNext]_vars

----------------------------------------------------------------------------
(* The class body as its author reads it *)

Declares(name) == \E i \in 1..Len(body) : body[i].attr = name

Stmt(name) == body[CHOOSE i \in 1..Len(body) : body[i].attr = name]

IsData(value) == value.kind \notin {"absent", "function", "type", "property"}

\* A declared public field: a public name the body annotates, or binds to
\* a data value.
DeclaredPublicField(name) ==
    /\ name \in PublicNames
    /\ Declares(name)
    /\ (Stmt(name).annotated \/ IsData(Stmt(name).value))

DeclaredPublicFields == {name \in PublicNames : DeclaredPublicField(name)}

PublicAnnotatedNames ==
    {name \in PublicNames : Declares(name) /\ Stmt(name).annotated}

HasDefault(name) == Stmt(name).value # NoValue

Supplied(name) == HasKey(callKwargs, name)

Returned == pc \in {"done", "raised"}

----------------------------------------------------------------------------
(* Claims about the model builder and its constructor *)

\* C1: construction raises PyIncusException exactly when at least one
\* declared public field has neither a default nor a supplied value, and the
\* error names every such field.
C1_RaisesExactlyWhenFieldMissing ==
    Returned =>
        LET missing == {f \in DeclaredPublicFields :
                           ~HasDefault(f) /\ ~Supplied(f)}
        IN  /\ (raised # NoError) <=> (missing # {})
            /\ raised # NoError => Range(raised.fields) = missing

ExpectedHookKwargs ==
    {<<callKwargs[i][1], callKwargs[i][2]>> : i \in 1..Len(callKwargs)}
    \cup {<<f, Stmt(f).value>> : f \in {g \in DeclaredPublicFields : ~Supplied(g)}}

\* C3: __post_init__ is invoked at most once and only after every declared
\* field was assigned; on success exactly once with the merged keyword
\* mapping; when a required field is missing the error is raised and the hook
\* is never invoked.
C3_HookOnceAfterAssignments ==
    /\ Len(hookCalls) <= 1
    /\ Cardinality({i \in 1..Len(events) : events[i] = HookEvent}) = Len(hookCalls)
    /\ \A i \in 1..Len(events) :
          events[i] = HookEvent =>
              /\ i = Len(events)
              /\ \A f \in DeclaredPublicFields :
                    \E j \in 1..(i - 1) : events[j] = SetAttrEvent(f)
    /\ pc = "done" =>
          /\ Len(hookCalls) = 1
          /\ Range(hookCalls[1]) = ExpectedHookKwargs
    /\ (Returned /\ \E f \in DeclaredPublicFields : ~HasDefault(f) /\ ~Supplied(f)) =>
          /\ raised # NoError
          /\ hookCalls = <<>>
    /\ raised # NoError => hookCalls = <<>>

C3_Witness ==
    /\ pc = "done"
    /\ Len(hookCalls) = 1
    /\ Supplied("_p") /\ HasKey(hookCalls[1], "_p")
    /\ \E f \in DeclaredPublicFields :
          ~Supplied(f) /\ <<f, DefaultValue>> \in Range(hookCalls[1])
    /\ \E f \in DeclaredPublicFields : Supplied(f)

\* The keyword arguments without the one named k.
Without(kw, k) == SelectSeq(kw, LAMBDA item : item[1] # k)

C9_DescriptorBoundToModelType ==
    pc # "define" =>
        \A f \in PublicAnnotatedNames :
            LET d == ClassAttr(newClassDict, body, f)
            IN  /\ d.kind = "ModelField"
                /\ d.field_name = f
                /\ d.cls = clsName
                /\ ModelFieldRepr(d) = clsName \o "." \o f

\* C11: _model_fields has exactly one entry per public annotated attribute
\* of the body and no other entry, and each entry holds the default the body
\* gives the field, of whatever kind, or the unset sentinel if it gives none.
C11_MappingIsAnnotatedFieldsWithDefaults ==
    pc # "define" =>
        /\ AllDistinct(KeySeq(model_fields))
        /\ Keys(model_fields) = PublicAnnotatedNames
        /\ \A f \in PublicAnnotatedNames :
              /\ HasKey(model_fields, f)
              /\ Get(model_fields, f) =
                    IF HasDefault(f) THEN Stmt(f).value ELSE Unset

\* The positions of the merged mapping that hold a missing field.
MissingPositions == {i \in 1..Len(kwargs) : kwargs[i][2] = Unset}

FirstMissing == CHOOSE i \in MissingPositions : \A j \in MissingPositions : i <= j

\* C10: when construction fails, the fields are processed in the order of
\* the type's default-field mapping, followed by the extra keyword
\* arguments; every field with a concrete value before the first missing
\* field is assigned, and no field after the first missing one is assigned.
C10_AssignmentStopsAtFirstMissing ==
    pc = "raised" =>
        /\ MissingPositions # {}
        /\ SubSeq(KeySeq(kwargs), 1, Len(model_fields)) = KeySeq(model_fields)
        /\ \A i \in 1..Len(kwargs) :
              LET field == kwargs[i][1]
              IN  /\ (i < FirstMissing /\ DeclaredPublicField(field)) =>
                        /\ HasKey(inst, field)
                        /\ Get(inst, field) = kwargs[i][2]
                  /\ i >= FirstMissing => ~HasKey(inst, field)

C10_Witness ==
    /\ pc = "raised"
    /\ \E i, j \in 1..Len(kwargs) :
          /\ i < FirstMissing /\ HasKey(inst, kwargs[i][1])
          /\ j > FirstMissing
          /\ DeclaredPublicField(kwargs[j][1])
          /\ Supplied(kwargs[j][1])
          /\ ~HasKey(inst, kwargs[j][1])

----------------------------------------------------------------------------
(* Claims about field descriptors and filter expressions *)

\* Every expression node inside a value, the value itself included.
RECURSIVE Nodes(_)
Nodes(value) ==
    IF value.kind # "FilterQuery" THEN {}
    ELSE {value} \cup Nodes(value.first_value) \cup Nodes(value.second_value)

\* The wire token of an operation.
WireToken(operation) ==
    CASE operation = "EQUALS" -> "eq"
      [] operation = "NOT_EQUALS" -> "ne"
      [] operation = "AND" -> "and"
      [] operation = "OR" -> "or"

\* The reference rendering of a node.
RECURSIVE Rendering(_)
Rendering(node) ==
    LET first == IF node.first_value.kind = "FilterQuery"
                 THEN Rendering(node.first_value)
                 ELSE node.first_value.field_name
    IN  IF node.operation = "NOT" THEN "not " \o first
        ELSE first \o " " \o WireToken(node.operation) \o " " \o
             (IF node.second_value.kind = "FilterQuery"
              THEN Rendering(node.second_value)
              ELSE PyRepr(node.second_value))

IsExpression(value) == value.kind = "FilterQuery"

IsDescriptor(value) == value.kind = "ModelField"

\* str(F == v) for the string scalars in Plain and for every number, and
\* str of and / or / not over expressions.
RendersAsStated(node, Plain) ==
    /\ FilterQueryStr(node) = Rendering(node)
    /\ (/\ node.operation = "EQUALS"
        /\ IsDescriptor(node.first_value)
        /\ node.second_value.kind = "str"
        /\ node.second_value.chars \in Plain) =>
          FilterQueryStr(node) =
              node.first_value.field_name \o " eq '"
                  \o Join(node.second_value.chars) \o "'"
    /\ (/\ node.operation = "EQUALS"
        /\ IsDescriptor(node.first_value)
        /\ node.second_value.kind = "int") =>
          FilterQueryStr(node) =
              node.first_value.field_name \o " eq " \o ToString(node.second_value.n)
    /\ (/\ node.operation = "AND"
        /\ IsExpression(node.first_value) /\ IsExpression(node.second_value)) =>
          FilterQueryStr(node) =
              FilterQueryStr(node.first_value) \o " and "
                  \o FilterQueryStr(node.second_value)
    /\ (/\ node.operation = "OR"
        /\ IsExpression(node.first_value) /\ IsExpression(node.second_value)) =>
          FilterQueryStr(node) =
              FilterQueryStr(node.first_value) \o " or "
                  \o FilterQueryStr(node.second_value)
    /\ (node.operation = "NOT" /\ IsExpression(node.first_value)) =>
          FilterQueryStr(node) = "not " \o FilterQueryStr(node.first_value)

\* C5 as stated: str(node) is the reference rendering for every node, and in
\* particular str(F == v) is "<field_name> eq '<v>'" for every string v.
C5_StrAsStated ==
    \A node \in Nodes(last.outcome) : RendersAsStated(node, Strings)

\* The strings whose literal representation is the text between single
\* quotes: those without a single quote and without a backslash.
PlainStrings ==
    {chars \in Strings : "'" \notin Range(chars) /\ "\\" \notin Range(chars)}

\* C5, amended: str(node) is the reference rendering for every node;
\* str(F == v) is "<field_name> eq '<v>'" for a string v that holds no single
\* quote and no backslash, "<field_name> eq <v>" for a number v; str(A & B),
\* str(A | B) and str(~A) are "A and B", "A or B" and "not A".
C5_StrIsRendering ==
    \A node \in Nodes(last.outcome) : RendersAsStated(node, PlainStrings)

C5_Witness ==
    /\ IsExpression(last.outcome)
    /\ Depth(last.outcome) >= 3
    /\ last.outcome.operation \in {"AND", "OR"}
    /\ IsExpression(last.outcome.second_value)
    /\ \E node \in Nodes(last.outcome) : node.operation = "NOT"
    /\ \E node \in Nodes(last.outcome) :
          /\ node.operation = "EQUALS"
          /\ node.second_value.kind = "str"
          /\ node.second_value.chars \in PlainStrings

\* C6 as stated: F == v and F != v return the leaf (F, equals, v) and
\* (F, not-equals, v) for every value v, the unset sentinel included, and
\* never fail.
C6_ComparisonAlwaysBuildsLeaf ==
    /\ last.call = "eq" =>
          last.outcome = FilterQuery(last.first, "EQUALS", last.second)
    /\ last.call = "ne" =>
          last.outcome = FilterQuery(last.first, "NOT_EQUALS", last.second)

\* C6, amended: for every value v other than the unset sentinel F == v and
\* F != v return the leaf (F, equals, v) and (F, not-equals, v); with the
\* unset sentinel they raise PyIncusException.
C6_ComparisonBuildsLeaf ==
    /\ (last.call = "eq" /\ last.second # Unset) =>
          last.outcome = FilterQuery(last.first, "EQUALS", last.second)
    /\ (last.call = "ne" /\ last.second # Unset) =>
          last.outcome = FilterQuery(last.first, "NOT_EQUALS", last.second)
    /\ (last.call \in {"eq", "ne"} /\ last.second = Unset) =>
          last.outcome = OperandError

C6_Witness ==
    /\ last.call = "eq"
    /\ IsExpression(last.second)
    /\ last.outcome = FilterQuery(last.first, "EQUALS", last.second)

CombinedOperation == IF last.call = "and" THEN "AND" ELSE "OR"

\* C7 as stated: A & B and A | B are the nodes (A, and, B) and (A, or, B)
\* for two expressions and for an expression and a descriptor in either
\* position; ~X is the negation node for any expression or descriptor X.
C7_CombinatorsAsStated ==
    /\ (/\ last.call \in {"and", "or"}
        /\ \/ IsExpression(last.first) /\ IsExpression(last.second)
           \/ IsExpression(last.first) /\ IsDescriptor(last.second)
           \/ IsDescriptor(last.first) /\ IsExpression(last.second)) =>
          last.outcome = FilterQuery(last.first, CombinedOperation, last.second)
    /\ (/\ last.call = "invert"
        /\ IsExpression(last.first) \/ IsDescriptor(last.first)) =>
          last.outcome = FilterQuery(last.first, "NOT", Unset)

\* C7, amended: A & B and A | B are the nodes (A, and, B) and (A, or, B)
\* when A is an expression and B an expression or a descriptor, and ~X is
\* the negation node when X is an expression; with a descriptor as the left
\* operand of & or |, or as the operand of ~, the operation raises TypeError.
C7_CombinatorsBuildNodes ==
    /\ (/\ last.call \in {"and", "or"}
        /\ IsExpression(last.first)
        /\ IsExpression(last.second) \/ IsDescriptor(last.second)) =>
          last.outcome = FilterQuery(last.first, CombinedOperation, last.second)
    /\ (last.call \in {"and", "or"} /\ IsDescriptor(last.first)) =>
          last.outcome = TypeError
    /\ (last.call = "invert" /\ IsExpression(last.first)) =>
          last.outcome = FilterQuery(last.first, "NOT", Unset)
    /\ (last.call = "invert" /\ IsDescriptor(last.first)) =>
          last.outcome = TypeError

C7_Witness ==
    /\ last.call = "and"
    /\ IsExpression(last.first)
    /\ Depth(last.first) >= 2
    /\ IsDescriptor(last.second)
    /\ last.outcome = FilterQuery(last.first, "AND", last.second)

\* C8: constructing a node succeeds if and only if the second operand is the
\* unset sentinel exactly when the operation is negation; otherwise it
\* raises PyIncusException and yields no node; so every node that exists has
\* a second operand iff its operation is not negation.
C8_NodeIffOperandsMatchOperation ==
    /\ last.call = "new" =>
          IF (last.second = Unset) <=> (last.operation = "NOT")
          THEN last.outcome = FilterQuery(last.first, last.operation, last.second)
          ELSE last.outcome = OperandError
    /\ \A node \in Nodes(last.outcome) :
          (node.second_value # Unset) <=> (node.operation # "NOT")

C8_Witness ==
    /\ last.call = "new"
    /\ last.operation = "NOT"
    /\ last.second # Unset
    /\ last.outcome = OperandError


\* The comparison just made was between an expression and its regrouping.
ComparedRegrouped ==
    /\ last.call = "query_eq"
    /\ last.second \in Regrouped(last.first)

\* C12: the wire string carries no grouping and node equality compares wire
\* strings only: (A op B) op' C and A op (B op' C), and likewise ~(A op B)
\* and (~A) op B, render to the same wire string and compare equal with ==
\* although the trees differ; in general a node equals another node exactly
\* when their strings are equal.
C12_EqualityIgnoresGrouping ==
    /\ last.call = "query_eq" =>
          /\ IsExpression(last.second)
          /\ last.outcome =
                PyBool(Rendering(last.first) = Rendering(last.second))
    /\ ComparedRegrouped =>
          /\ IsExpression(last.second)
          /\ last.first # last.second
          /\ FilterQueryStr(last.first) = FilterQueryStr(last.second)
          /\ last.outcome = PyBool(TRUE)

\* (A | B) & C has been compared with A | (B & C), and they were equal.
C12_Witness ==
    /\ ComparedRegrouped
    /\ last.first.operation = "AND"
    /\ last.first.first_value.operation = "OR"
    /\ last.second.operation = "OR"
    /\ last.second.second_value.operation = "AND"
    /\ last.first.first_value.first_value = last.second.first_value
    /\ last.outcome = PyBool(TRUE)

\* The leftmost descriptor of an expression.
RECURSIVE LeftmostDescriptor(_)
LeftmostDescriptor(value) ==
    IF IsExpression(value) THEN LeftmostDescriptor(value.first_value)
    ELSE value

\* C13: the hash of a node is the hash of its first operand, hence the hash
\* of the field name of its leftmost descriptor, and two nodes that compare
\* equal have equal hashes.
C13_HashConsistentWithEquality ==
    /\ last.call = "hash" =>
          /\ last.outcome = StrHash(LeftmostDescriptor(last.first).field_name)
          /\ IsExpression(last.first) =>
                last.outcome = PyHash(last.first.first_value)
    /\ (/\ last.call = "query_eq"
        /\ IsExpression(last.second)
        /\ last.outcome = PyBool(TRUE)) =>
          PyHash(last.first) = PyHash(last.second)

\* Two different trees compared equal, so their hashes had to agree.
C13_Witness ==
    /\ last.call = "query_eq"
    /\ IsExpression(last.second)
    /\ last.first # last.second
    /\ last.outcome = PyBool(TRUE)
    /\ PyHash(last.first) = PyHash(last.second)
    /\ Depth(last.first) >= 2

====
